---- MODULE Spec2Model ----
(***************************************************************************)
(* mpts - Multithreaded Ping Two Subnets.                                  *)
(*                                                                         *)
(* A model of src/mpts.py: main() validates the command line,              *)
(* initiate_ping_queues() enumerates the two blocks, starts one pool of    *)
(* ping_thread workers per block, fills the two queues, joins them and     *)
(* hands the two failure lists to print_results().                         *)
(*                                                                         *)
(* Scaling.  The program sweeps blocks of 256 addresses with 20 workers    *)
(* per pool.  The model keeps the structure and scales both numbers:       *)
(* BlockSize stands for 256 (so MaxOctet stands for 255) and NumThreads    *)
(* stands for 20.  Statements about "255 entries" are stated as            *)
(* BlockSize - 1, statements about "254 entries" as BlockSize - 2.         *)
(*                                                                         *)
(* An address a.b.c.d of a block is modelled as the pair <<net, d>>: net   *)
(* stands for the first three octets a.b.c and d is the final octet.  As   *)
(* an integer the address is net * BlockSize + d.                          *)
(***************************************************************************)
EXTENDS Integers, Sequences, FiniteSets, TLC

\* Bounds of the model (scaled program sizes).
BlockSize == 3
NumThreads == 2

\* Length of the failing prefix of the mock's side_effect sequence (300 in
\* test_mock_many_pings_fail, against 255 targets per block).
FailFirst == 6

\* Program constants.
Net1 == 1
Net2 == 2
PrefixLen == 24
AttemptLimit == 4
LastAttempt == 3

MaxOctet == BlockSize - 1

Pools == {1, 2}
Workers == 0 .. (NumThreads - 1)

None == <<>>

----------------------------------------------------------------------------
(* Command line arguments.                                                 *)

\* A --cidrN argument "net.host/plen" is the record of its three parts.
CidrArg(net, host, plen) == [net |-> net, host |-> host, plen |-> plen]

Cidr1Args ==
    { CidrArg(Net1, 0, PrefixLen),       \* "192.168.1.0/24"
      CidrArg(Net1, 1, PrefixLen),       \* "192.168.1.1/24": host bits set
      CidrArg(Net1, 0, PrefixLen - 8) }  \* "192.168.0.0/16"

Cidr2Args ==
    { CidrArg(Net2, 0, PrefixLen),
      CidrArg(Net2, 1, PrefixLen),
      CidrArg(Net2, 0, PrefixLen - 8) }

\* A --skip argument is a string, modelled as its sequence of characters;
\* the empty string is main's default (no --skip option).
DigitChars == <<"0", "1", "2", "3", "4", "5", "6", "7", "8", "9">>

Numeral(n) == <<DigitChars[n + 1]>>

SkipArgs ==
    { <<>> }
      \cup { Numeral(n) : n \in 0 .. BlockSize }   \* BlockSize is out of range
      \cup { <<"-", "1">>, <<"x">>, <<"0", "1">> }

DigitValue(c) == CHOOSE d \in 0 .. 9 : DigitChars[d + 1] = c

IsDigit(c) == \E d \in 0 .. 9 : DigitChars[d + 1] = c

RECURSIVE DigitsValue(_)
DigitsValue(s) ==
    IF s = <<>> THEN 0
    ELSE 10 * DigitsValue(SubSeq(s, 1, Len(s) - 1)) + DigitValue(s[Len(s)])

AllDigits(s) == s # <<>> /\ \A i \in 1 .. Len(s) : IsDigit(s[i])

\* int(skip): a ValueError unless the string is an optionally signed numeral.
IntParses(s) ==
    \/ AllDigits(s)
    \/ Len(s) > 1 /\ s[1] = "-" /\ AllDigits(Tail(s))

IntOf(s) == IF s[1] = "-" THEN 0 - DigitsValue(Tail(s)) ELSE DigitsValue(s)

\* assert 0 <= skip <= 255
SkipInRange(n) == 0 <= n /\ n <= MaxOctet

\* cidr[-3:] != "/24"
HasSlash24(c) == c.plen = PrefixLen

\* Variant: IPv4Network(cidr, strict=False) accepts set host bits.
NetworkParsesLax(c) == TRUE

\* ipaddress.IPv4Network(cidr) raises ValueError when host bits are set.
NetworkParses(c) == c.host = 0

----------------------------------------------------------------------------
(* Enumeration of a block.                                                 *)

\* The value of main's variable skip handed to initiate_ping_queues:
\* the string "" or an integer.
SkipStr == [isint |-> FALSE, val |-> 0]
SkipInt(n) == [isint |-> TRUE, val |-> n]

\* Variant: the comparison with the skipped octet never matches.
OctetIsSkipNever(final_octet, skipv) == FALSE

\* final_octet == skip (an int never equals the string "")
OctetIsSkip(final_octet, skipv) == skipv.isint /\ skipv.val = final_octet

\* Variant: the iteration stops one address short of the block.
NetworkAddrsShort(c) ==
    [k \in 1 .. (BlockSize - 1) |-> c.net * BlockSize + (k - 1)]

\* The addresses of IPv4Network(cidr), in order, as integers.
NetworkAddrs(c) == [k \in 1 .. BlockSize |-> c.net * BlockSize + (k - 1)]

\* Variant: the first three octets are those of the default CIDR1.
IpStrFixedPrefix(ip) == <<Net1, ip % BlockSize>>

\* str(ip): the dotted quad, as <<first three octets, final octet>>.
IpStr(ip) == <<ip \div BlockSize, ip % BlockSize>>

\* int(ip_str.split(".")[3])
FinalOctet(ip_str) == ip_str[2]

\* Variant: only octet 0 is disregarded, the skipped octet is kept.
SkippedZeroOnly(final_octet, skipv) == final_octet = 0

\* Variant: the last octet of the block is disregarded as well.
SkippedWithLast(final_octet, skipv) ==
    final_octet = 0 \/ final_octet = MaxOctet \/ OctetIsSkip(final_octet, skipv)

\* if final_octet == 0 or final_octet == skip: continue
Skipped(final_octet, skipv) == final_octet = 0 \/ OctetIsSkip(final_octet, skipv)

RECURSIVE EnumerateFrom(_, _, _)
EnumerateFrom(addrs, k, skipv) ==
    IF k > Len(addrs) THEN <<>>
    ELSE LET ip_str == IpStr(addrs[k])
             final_octet == FinalOctet(ip_str)
             rest == EnumerateFrom(addrs, k + 1, skipv)
         IN  IF Skipped(final_octet, skipv) THEN rest
             ELSE <<(<<final_octet, ip_str>>)>> \o rest

Enumerate(c, skipv) == EnumerateFrom(NetworkAddrs(c), 1, skipv)

----------------------------------------------------------------------------
(* print_results.                                                          *)

InSeq(x, s) == \E i \in 1 .. Len(s) : s[i] = x

Octets(failed) == [i \in 1 .. Len(failed) |-> failed[i][1]]

Addrs(failed) == [i \in 1 .. Len(failed) |-> failed[i][2]]

RECURSIVE Insert(_, _)
Insert(x, s) ==
    IF s = <<>> THEN <<x>>
    ELSE IF x <= Head(s) THEN <<x>> \o s
    ELSE <<Head(s)>> \o Insert(x, Tail(s))

\* Variant: the lists are returned in insertion order.
SortSkipped(s) == s

\* list.sort()
RECURSIVE Sort(_)
Sort(s) == IF s = <<>> THEN <<>> ELSE Insert(Head(s), Sort(Tail(s)))

\* Variant: the membership test is dropped, every octet is kept.
NotInOtherUnfiltered(xs, ys) == xs

\* for octet in xs: if octet not in ys: out.append(octet)
NotInOther(xs, ys) == SelectSeq(xs, LAMBDA o : ~InSeq(o, ys))

\* for octet in xs: ... else: common.append(octet)
InOther(xs, ys) == SelectSeq(xs, LAMBDA o : InSeq(o, ys))

PrintResults(failed_ips1, failed_ips2) ==
    LET octets1 == Octets(failed_ips1)
        octets2 == Octets(failed_ips2)
    IN  << failed_ips1,
           failed_ips2,
           Sort(NotInOther(octets1, octets2)),    \* failed_ips1_excl_octets
           Sort(NotInOther(octets2, octets1)),    \* failed_ips2_excl_octets
           Sort(InOther(octets1, octets2)) >>     \* failed_ips_common_octets

----------------------------------------------------------------------------
(* State.                                                                  *)

VARIABLES
    argv,         \* the command line: [cidr1, cidr2, skip]
    seam,         \* what get_returncode is: the real one or a test's mock
    plan,         \* the return codes of a per-target get_returncode
    calls,        \* position in the side_effect sequence of the mock
    main_pc,      \* position of the main thread
    skip,         \* main's variable skip after option parsing
    ips,          \* ips1, ips2: the enumerated targets of each block
    queue,        \* ips_q1, ips_q2: the queued items
    unfinished,   \* unfinished_tasks of each queue
    filled,       \* targets put so far by the fill loop of each queue
    faillist,     \* failed_ips1, failed_ips2
    wpc,          \* position of each worker
    ip,           \* ping_thread's variable ip
    attempt,      \* ping_thread's variable attempt
    result,       \* the value returned by initiate_ping_queues / main
    probes,       \* history: outcomes of the pings made for the current ip
    outcome,      \* history: the final outcome decided for each target
    deq           \* history: how often each target was dequeued

vars == << argv, seam, plan, calls, main_pc, skip, ips, queue, unfinished, filled,
           faillist, wpc, ip, attempt, result, probes, outcome, deq >>

inputVars == << argv, seam, plan >>
mainVars == << skip, ips, result >>
histVars == << probes, outcome, deq >>

Octs == 0 .. MaxOctet

\* get_returncode: the real function, or the mocks of test_mpts.py with
\* return_value 0 and return_value 1.
Seams == {"returncode", "mock0", "mock1"}

\* The return codes of one target for the attempts 1, 2 and 3: a target
\* that answers at once, one that answers the third ping, one that never
\* answers.
PlanRows == { <<0, 1, 1>>, <<1, 1, 0>>, <<1, 1, 1>> }

\* A get_returncode whose result is a fixed function of the target and the
\* attempt number.
Plans == [Pools -> [1 .. MaxOctet -> PlanRows]]

NoPlan == [p \in Pools |-> [o \in 1 .. MaxOctet |-> <<0, 0, 0>>]]

\* The state at the call of initiate_ping_queues' caller, main(): nothing
\* enumerated, queued, started or recorded.
Start ==
    /\ calls = 0
    /\ main_pc = "main"
    /\ skip = SkipStr
    /\ ips = [p \in Pools |-> <<>>]
    /\ queue = [p \in Pools |-> <<>>]
    /\ unfinished = [p \in Pools |-> 0]
    /\ filled = [p \in Pools |-> 0]
    /\ faillist = [p \in Pools |-> <<>>]
    /\ wpc = [p \in Pools |-> [w \in Workers |-> "unstarted"]]
    /\ ip = [p \in Pools |-> [w \in Workers |-> None]]
    /\ attempt = [p \in Pools |-> [w \in Workers |-> 0]]
    /\ result = None
    /\ probes = [p \in Pools |-> [w \in Workers |-> <<>>]]
    /\ outcome = [p \in Pools |-> [o \in Octs |-> "none"]]
    /\ deq = [p \in Pools |-> [o \in Octs |-> 0]]

\* A sweep whose get_returncode is the mock with a side_effect sequence:
\* the first FailFirst calls, over both pools together, return 1 and the
\* later ones 0.
InitFailFirst ==
    /\ argv \in [cidr1 : Cidr1Args, cidr2 : Cidr2Args, skip : SkipArgs]
    /\ seam = "failfirst"
    /\ plan = NoPlan
    /\ Start

\* A sweep whose get_returncode is a function of target and attempt.
InitFixed ==
    /\ argv \in [cidr1 : Cidr1Args, cidr2 : Cidr2Args, skip : SkipArgs]
    /\ seam = "fixed"
    /\ plan \in Plans
    /\ Start

Init ==
    /\ argv \in [cidr1 : Cidr1Args, cidr2 : Cidr2Args, skip : SkipArgs]
    /\ seam \in Seams
    /\ plan = NoPlan
    /\ calls = 0
    /\ main_pc = "main"
    /\ skip = SkipStr
    /\ ips = [p \in Pools |-> <<>>]
    /\ queue = [p \in Pools |-> <<>>]
    /\ unfinished = [p \in Pools |-> 0]
    /\ filled = [p \in Pools |-> 0]
    /\ faillist = [p \in Pools |-> <<>>]
    /\ wpc = [p \in Pools |-> [w \in Workers |-> "unstarted"]]
    /\ ip = [p \in Pools |-> [w \in Workers |-> None]]
    /\ attempt = [p \in Pools |-> [w \in Workers |-> 0]]
    /\ result = None
    /\ probes = [p \in Pools |-> [w \in Workers |-> <<>>]]
    /\ outcome = [p \in Pools |-> [o \in Octs |-> "none"]]
    /\ deq = [p \in Pools |-> [o \in Octs |-> 0]]

----------------------------------------------------------------------------
(* The main thread.                                                        *)

\* main(): option parsing and validation, up to the call of
\* initiate_ping_queues.  sys.exit() leaves main_pc = "exit"; the
\* AssertionError of an out-of-range octet is not caught by
\* "except ValueError or AssertionError" (which names ValueError only) and
\* leaves main_pc = "raised".
Main ==
    /\ main_pc = "main"
    /\ IF ~HasSlash24(argv.cidr1) \/ ~HasSlash24(argv.cidr2)
       THEN main_pc' = "exit" /\ skip' = skip
       ELSE IF argv.skip = <<>>
       THEN main_pc' = "enumerate" /\ skip' = SkipStr
       ELSE IF ~IntParses(argv.skip)
       THEN main_pc' = "exit" /\ skip' = skip
       ELSE IF ~SkipInRange(IntOf(argv.skip))
       THEN main_pc' = "raised" /\ skip' = SkipInt(IntOf(argv.skip))
       ELSE main_pc' = "enumerate" /\ skip' = SkipInt(IntOf(argv.skip))
    /\ UNCHANGED << ips, result, queue, unfinished, filled, faillist, wpc,
                    ip, attempt >>
    /\ UNCHANGED inputVars
    /\ UNCHANGED calls
    /\ UNCHANGED histVars

\* initiate_ping_queues: the two enumeration loops.  IPv4Network raises
\* ValueError for a network it cannot parse, before any thread exists.
EnumerateBlocks ==
    /\ main_pc = "enumerate"
    /\ IF NetworkParses(argv.cidr1) /\ NetworkParses(argv.cidr2)
       THEN /\ ips' = [p \in Pools |->
                         IF p = 1 THEN Enumerate(argv.cidr1, skip)
                                  ELSE Enumerate(argv.cidr2, skip)]
            /\ main_pc' = "start1"
       ELSE /\ ips' = ips
            /\ main_pc' = "raised"
    /\ UNCHANGED << skip, result, queue, unfinished, filled, faillist, wpc,
                    ip, attempt >>
    /\ UNCHANGED inputVars
    /\ UNCHANGED calls
    /\ UNCHANGED histVars

\* Variant: the second join is left out.
AfterJoinPcSkipsSecond(p) == "print_results"

StartPc(p) == IF p = 1 THEN "start1" ELSE "start2"
FillPc(p) == IF p = 1 THEN "fill1" ELSE "fill2"
JoinPc(p) == IF p = 1 THEN "join1" ELSE "join2"
AfterFillPc(p) == IF p = 1 THEN "start2" ELSE "join1"
AfterJoinPc(p) == IF p = 1 THEN "join2" ELSE "print_results"

\* for i in range(num_threads): Thread(target=ping_thread, ...).start()
\* The queue of the pool is empty throughout this loop, so every started
\* worker blocks in q.get(): the loop is one step.
StartPool(p) ==
    /\ main_pc = StartPc(p)
    /\ wpc' = [wpc EXCEPT ![p] = [w \in Workers |-> "get"]]
    /\ main_pc' = IF ips[p] = <<>> THEN AfterFillPc(p) ELSE FillPc(p)
    /\ UNCHANGED << queue, unfinished, filled, faillist, ip, attempt >>
    /\ UNCHANGED inputVars
    /\ UNCHANGED calls
    /\ UNCHANGED mainVars
    /\ UNCHANGED histVars

\* Variant: the item is counted as a task but not stored.
QPutDrops(q, item) == q

\* q.put(item)
QPut(q, item) == Append(q, item)

\* for ip in ips: ips_q.put(ip)       (one iteration)
Fill(p) ==
    /\ main_pc = FillPc(p)
    /\ filled[p] < Len(ips[p])
    /\ queue' = [queue EXCEPT ![p] = QPut(@, ips[p][filled[p] + 1])]
    /\ unfinished' = [unfinished EXCEPT ![p] = @ + 1]
    /\ filled' = [filled EXCEPT ![p] = @ + 1]
    /\ main_pc' = IF filled[p] + 1 < Len(ips[p]) THEN main_pc
                  ELSE AfterFillPc(p)
    /\ UNCHANGED << faillist, wpc, ip, attempt >>
    /\ UNCHANGED inputVars
    /\ UNCHANGED calls
    /\ UNCHANGED mainVars
    /\ UNCHANGED histVars

\* Variant: the main thread waits for an empty queue only.
JoinReturnsOnEmpty(q, unfinished_tasks) == q = <<>>

\* ips_q.join() returns when no task of the queue is unfinished.
JoinReturns(q, unfinished_tasks) == unfinished_tasks = 0

Join(p) ==
    /\ main_pc = JoinPc(p)
    /\ JoinReturns(queue[p], unfinished[p])
    /\ main_pc' = AfterJoinPc(p)
    /\ UNCHANGED << queue, unfinished, filled, faillist, wpc, ip, attempt >>
    /\ UNCHANGED inputVars
    /\ UNCHANGED calls
    /\ UNCHANGED mainVars
    /\ UNCHANGED histVars

\* result = print_results(...); return result
Classify ==
    /\ main_pc = "print_results"
    /\ result' = PrintResults(faillist[1], faillist[2])
    /\ main_pc' = "done"
    /\ UNCHANGED << skip, ips, queue, unfinished, filled, faillist, wpc, ip,
                    attempt >>
    /\ UNCHANGED inputVars
    /\ UNCHANGED calls
    /\ UNCHANGED histVars

----------------------------------------------------------------------------
(* ping_thread.                                                            *)

\* Variant: the item is read but left in the queue.
QRestKeeps(q) == q

\* The item q.get() returns and the items it leaves in the queue.
QFront(q) == Head(q)
QRest(q) == Tail(q)

\* while attempt < 4
LoopContinues(a) == a < AttemptLimit

\* ip = q.get(); attempt = 1          (blocks while the queue is empty)
Get(p, w) ==
    /\ wpc[p][w] = "get"
    /\ queue[p] # <<>>
    /\ ip' = [ip EXCEPT ![p][w] = QFront(queue[p])]
    /\ queue' = [queue EXCEPT ![p] = QRest(@)]
    /\ attempt' = [attempt EXCEPT ![p][w] = 1]
    /\ wpc' = [wpc EXCEPT ![p][w] =
                 IF LoopContinues(1) THEN "ping" ELSE "task_done"]
    /\ deq' = [deq EXCEPT ![p][QFront(queue[p])[1]] = @ + 1]
    /\ probes' = [probes EXCEPT ![p][w] = <<>>]
    /\ UNCHANGED << main_pc, unfinished, filled, faillist, outcome >>
    /\ UNCHANGED inputVars
    /\ UNCHANGED calls
    /\ UNCHANGED mainVars

\* The return codes get_returncode can give: ping's own (0 or not 0), or
\* the mock's return_value.
ReturnCodes(s) ==
    IF s = "mock0" THEN {0} ELSE IF s = "mock1" THEN {1} ELSE {0, 1}

\* Variant: the side_effect sequence never turns to 0.
SideEffectAllFail(c) == 1

\* The side_effect sequence of the mock: the value returned by the call
\* that follows c earlier calls.
SideEffect(c) == IF c < FailFirst THEN 1 ELSE 0

\* Variant: every target answers from the third attempt on.
FixedCodeThenUp(row, a) == IF a < LastAttempt THEN row[a] ELSE 0

\* The value a per-target get_returncode gives for attempt a of a target.
FixedCode(row, a) == row[a]

\* return_code = get_returncode(response): what the seam in use returns
\* for attempt a on a target with plan row `row`, after c earlier calls.
GetReturncode(s, c, row, a) ==
    IF s = "failfirst" THEN {SideEffect(c)}
    ELSE IF s = "fixed" THEN {FixedCode(row, a)}
    ELSE ReturnCodes(s)

\* Variant: the host is declared down one attempt early.
VerdictDownEarly(rc, a) ==
    IF rc = 0 THEN "up"
    ELSE IF rc # 0 /\ a = LastAttempt - 1 THEN "down"
    ELSE "retry"

\* Variant: the test of the return code is inverted.
VerdictInverted(rc, a) ==
    IF rc # 0 THEN "up"
    ELSE IF a = LastAttempt THEN "down"
    ELSE "retry"

\* The if / elif / else on the return code of one ping:
\*   return_code == 0                   -> 'is up', break
\*   return_code != 0 and attempt == 3  -> 'is down', faillist.append, break
\*   otherwise                          -> attempt += 1
Verdict(rc, a) ==
    IF rc = 0 THEN "up"
    ELSE IF rc # 0 /\ a = LastAttempt THEN "down"
    ELSE "retry"

\* One iteration of "while attempt < 4": Popen, response.wait(),
\* get_returncode and the if / elif / else that follows.  The branches
\* touch the worker's own variables only, except faillist.append(ip),
\* which is the separate step AppendFailure.
Ping(p, w) ==
    /\ wpc[p][w] = "ping"
    /\ calls' = IF seam = "failfirst" /\ calls < FailFirst
                THEN calls + 1 ELSE calls
    /\ \E rc \in GetReturncode(seam, calls, plan[p][ip[p][w][1]],
                                attempt[p][w]) :
          /\ probes' = [probes EXCEPT ![p][w] =
                          Append(@, IF rc = 0 THEN "U" ELSE "F")]
          /\ IF Verdict(rc, attempt[p][w]) = "up"
             THEN /\ wpc' = [wpc EXCEPT ![p][w] = "task_done"]
                  /\ outcome' = [outcome EXCEPT ![p][ip[p][w][1]] = "Up"]
                  /\ UNCHANGED attempt
             ELSE IF Verdict(rc, attempt[p][w]) = "down"
             THEN /\ wpc' = [wpc EXCEPT ![p][w] = "append"]
                  /\ outcome' = [outcome EXCEPT ![p][ip[p][w][1]] = "Down"]
                  /\ UNCHANGED attempt
             ELSE /\ attempt' = [attempt EXCEPT ![p][w] = @ + 1]
                  /\ wpc' = [wpc EXCEPT ![p][w] =
                               IF LoopContinues(attempt[p][w] + 1)
                               THEN "ping" ELSE "task_done"]
                  /\ UNCHANGED outcome
    /\ UNCHANGED << main_pc, queue, unfinished, filled, faillist, ip, deq >>
    /\ UNCHANGED inputVars
    /\ UNCHANGED mainVars

\* Popen raises (no ping executable, no process or descriptor left): the
\* exception leaves ping_thread and ends the thread; q.task_done() is not
\* called for the item the thread holds.
PingRaises(p, w) ==
    /\ wpc[p][w] = "ping"
    /\ probes' = [probes EXCEPT ![p][w] = Append(@, "E")]
    /\ wpc' = [wpc EXCEPT ![p][w] = "dead"]
    /\ UNCHANGED << main_pc, queue, unfinished, filled, faillist, ip,
                    attempt, outcome, deq >>
    /\ UNCHANGED inputVars
    /\ UNCHANGED calls
    /\ UNCHANGED mainVars

\* Variant: the new entry is inserted at the front of the list.
ListPrepend(l, x) == <<x>> \o l

\* Variant: two writers store into the same slot (a lost update).
ListAppendLost(l, x) ==
    IF l = <<>> THEN <<x>> ELSE [l EXCEPT ![Len(l)] = x]

\* faillist.append(ip): one atomic list operation.
ListAppend(l, x) == Append(l, x)

\* print(ip[1], 'is down'); faillist.append(ip); break
AppendFailure(p, w) ==
    /\ wpc[p][w] = "append"
    /\ faillist' = [faillist EXCEPT ![p] = ListAppend(@, ip[p][w])]
    /\ wpc' = [wpc EXCEPT ![p][w] = "task_done"]
    /\ UNCHANGED << main_pc, queue, unfinished, filled, ip, attempt >>
    /\ UNCHANGED inputVars
    /\ UNCHANGED calls
    /\ UNCHANGED mainVars
    /\ UNCHANGED histVars

\* q.task_done(), then back to q.get() at the head of "while True".
TaskDone(p, w) ==
    /\ wpc[p][w] = "task_done"
    /\ unfinished' = [unfinished EXCEPT ![p] = @ - 1]
    /\ ip' = [ip EXCEPT ![p][w] = None]
    /\ attempt' = [attempt EXCEPT ![p][w] = 0]
    /\ probes' = [probes EXCEPT ![p][w] = <<>>]
    /\ wpc' = [wpc EXCEPT ![p][w] = "get"]
    /\ UNCHANGED << main_pc, queue, filled, faillist, outcome, deq >>
    /\ UNCHANGED inputVars
    /\ UNCHANGED calls
    /\ UNCHANGED mainVars

----------------------------------------------------------------------------

Next ==
    \/ Main
    \/ EnumerateBlocks
    \/ \E p \in Pools : StartPool(p)
    \/ \E p \in Pools : Fill(p)
    \/ \E p \in Pools : Join(p)
    \/ Classify
    \/ \E p \in Pools, w \in Workers : Get(p, w)
    \/ \E p \in Pools, w \in Workers : Ping(p, w)
    \/ \E p \in Pools, w \in Workers : PingRaises(p, w)
    \/ \E p \in Pools, w \in Workers : AppendFailure(p, w)
    \/ \E p \in Pools, w \in Workers : TaskDone(p, w)

Spec == Init /\ [][Next]_vars

\* The sweep under the mock with the side_effect sequence.
SpecFailFirst == InitFailFirst /\ [][Next]_vars

\* The sweep under a per-target get_returncode.
SpecFixed == InitFixed /\ [][Next]_vars

----------------------------------------------------------------------------
(* Properties.                                                             *)

SeqSet(s) == { s[i] : i \in DOMAIN s }

NoDuplicates(s) == Cardinality(SeqSet(s)) = Len(s)

Targets(p) == SeqSet(ips[p])

OctetSet(failed) == { failed[i][1] : i \in DOMAIN failed }

AddrSet(failed) == { failed[i][2] : i \in DOMAIN failed }

\* The ascending sequence of the elements of a finite set of integers.
AscendingSeq(S) ==
    CHOOSE s \in [1 .. Cardinality(S) -> S] :
        \A i, j \in 1 .. Cardinality(S) : i < j => s[i] < s[j]

\* The pool has been handed all its targets and none is unfinished.
Drained(p) ==
    /\ Len(ips[p]) > 0
    /\ filled[p] = Len(ips[p])
    /\ unfinished[p] = 0

\* The command line is a configuration error: a range that is not a block
\* of 256 addresses, or an excluded offset that is no integer of [0,255].
IsBlock(c) == c.plen = PrefixLen /\ c.host = 0

SkipArgOk(s) ==
    \/ s = <<>>
    \/ IntParses(s) /\ IntOf(s) \in 0 .. MaxOctet

ConfigError ==
    \/ ~IsBlock(argv.cidr1)
    \/ ~IsBlock(argv.cidr2)
    \/ ~SkipArgOk(argv.skip)

NoSkipGiven == argv.skip = <<>>

\* C1: every enumerated target is dequeued by exactly one worker exactly
\* once.  No target is ever dequeued twice, no two workers ever hold the
\* same target, and when the sweep has returned every enumerated target of
\* each range has been dequeued once (and nothing else has).
C1_EachTargetDequeuedOnce ==
    /\ \A p \in Pools, o \in Octs : deq[p][o] <= 1
    /\ \A p \in Pools, w1, w2 \in Workers :
          (w1 # w2 /\ ip[p][w1] # None) => ip[p][w1] # ip[p][w2]
    /\ main_pc = "done" =>
          \A p \in Pools, o \in Octs :
             deq[p][o] = IF \E t \in Targets(p) : t[1] = o THEN 1 ELSE 0

\* The sweep has returned after two workers of pool 1 shared its targets:
\* the second target was recorded before the first.
C1_Witness ==
    /\ main_pc = "done"
    /\ seam = "returncode"
    /\ \A t \in Targets(1) : deq[1][t[1]] = 1
    /\ Len(faillist[1]) >= 2
    /\ faillist[1][1][1] > faillist[1][2][1]

\* C2: the classification and the return of the result happen only after
\* both queues are drained and every probe of both pools has completed,
\* its append to the failure list included.
C2_ResultAfterDrain ==
    (main_pc \in {"print_results", "done"} \/ result # None) =>
        \A p \in Pools :
           /\ queue[p] = <<>>
           /\ unfinished[p] = 0
           /\ filled[p] = Len(ips[p])
           /\ \A w \in Workers : wpc[p][w] = "get" /\ ip[p][w] = None
           /\ \A o \in Octs :
                 outcome[p][o] = "Down" => o \in OctetSet(faillist[p])

\* The main thread is about to classify, with failures recorded in both
\* pools.
C2_Witness ==
    /\ main_pc = "print_results"
    /\ Len(faillist[1]) = Len(ips[1])
    /\ Len(faillist[2]) >= 1
    /\ \E o \in Octs : outcome[2][o] = "Up"

\* C3: no append to a failure list is lost.  When a pool has drained, its
\* failure list holds exactly the targets of its range whose final outcome
\* was Down, each once, and every target has an outcome.
C3_NoLostFailure ==
    \A p \in Pools :
       Drained(p) =>
          /\ SeqSet(faillist[p]) =
                { t \in Targets(p) : outcome[p][t[1]] = "Down" }
          /\ NoDuplicates(faillist[p])
          /\ \A t \in Targets(p) : outcome[p][t[1]] \in {"Up", "Down"}

\* Pool 2 has drained with every target down, appended by workers that
\* overtook each other.
C3_Witness ==
    /\ Drained(2)
    /\ Len(faillist[2]) = Len(ips[2])
    /\ Len(faillist[2]) >= 2
    /\ faillist[2][1][1] > faillist[2][2][1]

\* C4: between 1 and 3 attempts per target, each made only after the
\* failure of the one before; the first success ends the probe as Up; a
\* target is recorded as a failure exactly when 3 attempts were made and
\* all 3 failed.
C4_RetryPolicy ==
    \A p \in Pools, w \in Workers :
       LET pr == probes[p][w]
           n == Len(pr)
       IN  /\ n <= 3
           /\ \A i \in 1 .. (n - 1) : pr[i] = "F"
           /\ wpc[p][w] = "ping" =>
                 /\ n < 3
                 /\ attempt[p][w] = n + 1
                 /\ \A i \in 1 .. n : pr[i] = "F"
                 /\ ip[p][w] \notin SeqSet(faillist[p])
           /\ wpc[p][w] = "append" =>
                 /\ pr = <<"F", "F", "F">>
                 /\ outcome[p][ip[p][w][1]] = "Down"
           /\ wpc[p][w] = "task_done" =>
                 /\ n >= 1
                 /\ pr[n] = "U" \/ pr = <<"F", "F", "F">>
                 /\ pr[n] = "U" => outcome[p][ip[p][w][1]] = "Up"
                 /\ ip[p][w] \in SeqSet(faillist[p]) <=> pr = <<"F", "F", "F">>

\* A worker is done with a target that answered on the third attempt,
\* while another target of the pool is recorded as down.
C4_Witness ==
    \E p \in Pools, w \in Workers :
       /\ wpc[p][w] = "task_done"
       /\ probes[p][w] = <<"F", "F", "U">>
       /\ faillist[p] # <<>>

\* C5: absent a configuration error the sweep completes for every pattern
\* of probe outcomes.  Stated on finite runs: as long as the sweep has not
\* returned, some thread can take a step.
C5_SweepCompletes ==
    (~ConfigError /\ main_pc # "done") => ENABLED Next

\* C6: a configuration error is detected before any probing starts: no
\* worker dequeues a target, no probe attempt is made and no result is
\* returned.
C6_ConfigErrorBeforeProbing ==
    ConfigError =>
       /\ main_pc # "done"
       /\ result = None
       /\ \A p \in Pools, o \in Octs : deq[p][o] = 0 /\ outcome[p][o] = "none"
       /\ \A p \in Pools, w \in Workers :
             /\ wpc[p][w] = "unstarted"
             /\ probes[p][w] = <<>>
             /\ ip[p][w] = None
       /\ \A p \in Pools : queue[p] = <<>> /\ faillist[p] = <<>>

\* Range A is a valid block, only range B is malformed (host bits set in
\* a /24), and the invocation has ended with the error.
C6_Witness ==
    /\ IsBlock(argv.cidr1)
    /\ ~IsBlock(argv.cidr2)
    /\ HasSlash24(argv.cidr2)
    /\ SkipArgOk(argv.skip)
    /\ main_pc = "raised"

\* C7: onlyA, onlyB and common are the ascending sequences of the offsets
\* failed in A and not in B, in B and not in A, and in both; each offset
\* is the final octet of an address of the corresponding failure list(s).
C7_Classification ==
    result # None =>
       LET A == OctetSet(result[1])
           B == OctetSet(result[2])
       IN  /\ result[1] = faillist[1]
           /\ result[2] = faillist[2]
           /\ result[3] = AscendingSeq(A \ B)
           /\ result[4] = AscendingSeq(B \ A)
           /\ result[5] = AscendingSeq(A \cap B)
           /\ \A i \in DOMAIN result[3] :
                 <<argv.cidr1.net, result[3][i]>> \in AddrSet(result[1])
           /\ \A i \in DOMAIN result[4] :
                 <<argv.cidr2.net, result[4][i]>> \in AddrSet(result[2])
           /\ \A i \in DOMAIN result[5] :
                 /\ <<argv.cidr1.net, result[5][i]>> \in AddrSet(result[1])
                 /\ <<argv.cidr2.net, result[5][i]>> \in AddrSet(result[2])

\* A result whose common offsets had to be sorted, although the addresses
\* of the two ranges differ.
C7_Witness ==
    /\ result # None
    /\ Len(result[5]) >= 2
    /\ Octets(result[1])[1] > Octets(result[1])[2]
    /\ AddrSet(result[1]) \cap AddrSet(result[2]) = {}

\* C8: if every probe attempt succeeds (get_returncode always 0), both
\* failure lists and onlyA, onlyB and common are empty.
C8_AllUp ==
    (main_pc = "done" /\ seam = "mock0") =>
        result = << <<>>, <<>>, <<>>, <<>>, <<>> >>

\* The sweep has returned with every target probed once and up.
C8_Witness ==
    /\ main_pc = "done"
    /\ seam = "mock0"
    /\ NoSkipGiven
    /\ \A p \in Pools : \A t \in Targets(p) : outcome[p][t[1]] = "Up"
    /\ result[1] = <<>>

\* C9: if every probe attempt fails (get_returncode always 1) and no
\* offset is excluded, each failure list holds every address of the block
\* but .0, once (255 entries), onlyA and onlyB are empty and common has
\* 255 entries.
C9_AllFail ==
    (main_pc = "done" /\ seam = "mock1" /\ NoSkipGiven) =>
        /\ Len(result[1]) = BlockSize - 1
        /\ Len(result[2]) = BlockSize - 1
        /\ SeqSet(result[1]) =
              { <<o, <<argv.cidr1.net, o>> >> : o \in 1 .. MaxOctet }
        /\ SeqSet(result[2]) =
              { <<o, <<argv.cidr2.net, o>> >> : o \in 1 .. MaxOctet }
        /\ result[3] = <<>>
        /\ result[4] = <<>>
        /\ Len(result[5]) = BlockSize - 1

\* The sweep with the failing mock and no --skip has returned.
C9_Witness ==
    /\ main_pc = "done"
    /\ seam = "mock1"
    /\ NoSkipGiven
    /\ Len(result[5]) = BlockSize - 1

\* C10 as stated: every outcome Down and no offset excluded gives 254
\* entries in each failure list and in common.
C10_Original ==
    (main_pc = "done" /\ NoSkipGiven
       /\ \A p \in Pools : \A t \in Targets(p) : outcome[p][t[1]] = "Down") =>
        /\ Len(result[1]) = BlockSize - 2
        /\ Len(result[2]) = BlockSize - 2
        /\ result[3] = <<>>
        /\ result[4] = <<>>
        /\ Len(result[5]) = BlockSize - 2

\* C10, amended: every outcome Down and no offset excluded gives 255
\* entries in each failure list and in common (the last address of the
\* block is probed too); onlyA and onlyB are empty.
C10_AllDown255 ==
    (main_pc = "done" /\ NoSkipGiven
       /\ \A p \in Pools : \A t \in Targets(p) : outcome[p][t[1]] = "Down") =>
        /\ Len(result[1]) = MaxOctet
        /\ Len(result[2]) = MaxOctet
        /\ MaxOctet \in OctetSet(result[1]) \cap OctetSet(result[2])
        /\ result[3] = <<>>
        /\ result[4] = <<>>
        /\ Len(result[5]) = MaxOctet

\* With the real return codes every target of both ranges ended Down, the
\* last address of each block included.
C10_Witness ==
    /\ main_pc = "done"
    /\ seam = "returncode"
    /\ NoSkipGiven
    /\ \A p \in Pools, o \in 1 .. MaxOctet : outcome[p][o] = "Down"
    /\ result[5][Len(result[5])] = MaxOctet


\* The two blocks have been enumerated.
Enumerated == main_pc \notin {"main", "enumerate", "exit", "raised"}

\* The --skip octet, when one was given and accepted.
SkipGiven(k) == skip.isint /\ skip.val = k

CidrOfPool(p) == IF p = 1 THEN argv.cidr1 ELSE argv.cidr2

\* C11 as stated: 254 targets (offsets 1..254 ascending) without an
\* excluded offset, 253 with one valid excluded offset.
C11_Original ==
    Enumerated =>
       \A p \in Pools :
          /\ NoSkipGiven =>
                Octets(ips[p]) = [i \in 1 .. (BlockSize - 2) |-> i]
          /\ ~NoSkipGiven => Len(ips[p]) = BlockSize - 3

\* C11, amended: 255 targets (offsets 1..255 ascending, each paired with
\* its address) when no offset is excluded or the excluded offset is 0;
\* 254 targets, ascending and without K, when the excluded offset K is in
\* [1,255].
C11_Enumeration255 ==
    Enumerated =>
       \A p \in Pools :
          /\ \A i \in DOMAIN ips[p] :
                ips[p][i][2] = <<CidrOfPool(p).net, ips[p][i][1]>>
          /\ \A i, j \in DOMAIN ips[p] : i < j => ips[p][i][1] < ips[p][j][1]
          /\ (NoSkipGiven \/ SkipGiven(0)) =>
                Octets(ips[p]) = [i \in 1 .. MaxOctet |-> i]
          /\ \A k \in 1 .. MaxOctet :
                SkipGiven(k) =>
                   /\ Len(ips[p]) = MaxOctet - 1
                   /\ OctetSet(ips[p]) = (1 .. MaxOctet) \ {k}

\* The last octet of the block was excluded and one target fewer was
\* enumerated.
C11_Witness ==
    /\ Enumerated
    /\ SkipGiven(MaxOctet)
    /\ Len(ips[1]) = MaxOctet - 1
    /\ Len(ips[2]) = MaxOctet - 1

\* C12: with an excluded offset K, neither K nor 0 is ever enqueued or
\* probed in either range, and neither appears in a failure list or in
\* onlyA, onlyB, common.
C12_ExcludedNeverProbed ==
    \A k \in Octs :
       (SkipGiven(k) /\ Enumerated) =>
          \A o \in {0, k} :
             /\ \A p \in Pools :
                   /\ o \notin OctetSet(ips[p])
                   /\ o \notin OctetSet(queue[p])
                   /\ o \notin OctetSet(faillist[p])
                   /\ deq[p][o] = 0
                   /\ outcome[p][o] = "none"
                   /\ \A w \in Workers : ip[p][w] # None => ip[p][w][1] # o
             /\ result # None =>
                   /\ o \notin OctetSet(result[1]) \cup OctetSet(result[2])
                   /\ o \notin SeqSet(result[3]) \cup SeqSet(result[4])
                   /\ o \notin SeqSet(result[5])

\* A sweep that excluded offset 1 has returned with failures in common.
C12_Witness ==
    /\ main_pc = "done"
    /\ SkipGiven(1)
    /\ result[5] # <<>>
    /\ result[1] # <<>>

\* C13: the pools never cross-contaminate.  Every target queued for,
\* held by a worker of, or recorded as failed by a pool is an address of
\* that pool's range.
InRange(t, p) == t[2][1] = CidrOfPool(p).net

C13_NoCrossContamination ==
    \A p \in Pools :
       /\ \A i \in DOMAIN queue[p] : InRange(queue[p][i], p)
       /\ \A i \in DOMAIN faillist[p] : InRange(faillist[p][i], p)
       /\ \A w \in Workers : ip[p][w] # None => InRange(ip[p][w], p)
       /\ result # None => \A i \in DOMAIN result[p] : InRange(result[p][i], p)
       /\ \A q \in Pools \ {p} :
             \A i \in DOMAIN faillist[q] : ~InRange(faillist[q][i], p)

\* Both failure lists are populated while workers of both pools hold
\* targets.
C13_Witness ==
    /\ faillist[1] # <<>>
    /\ faillist[2] # <<>>
    /\ \E w \in Workers : ip[1][w] # None
    /\ \E w \in Workers : ip[2][w] # None


\* C15 as stated: once a pool's queue is drained and nothing more will
\* arrive, every worker of the pool ends up out of its loop.  Stated on
\* finite runs: when the pool has drained and no thread can take another
\* step, every worker of the pool has terminated.
C15_Original ==
    \A p \in Pools :
       (Drained(p) /\ ~ENABLED Next) =>
          \A w \in Workers : wpc[p][w] \in {"exited", "dead"}

\* C15, amended: no worker ever leaves its loop.  Once a pool has drained,
\* every worker of the pool is blocked in q.get() on the empty queue and
\* cannot take a step; it stays there until the process ends.
C15_WorkersStayBlocked ==
    /\ \A p \in Pools, w \in Workers :
          wpc[p][w] \in {"unstarted", "get", "ping", "append", "task_done",
                         "dead"}
    /\ \A p \in Pools :
          Drained(p) =>
             /\ queue[p] = <<>>
             /\ \A w \in Workers :
                   /\ wpc[p][w] = "get"
                   /\ ip[p][w] = None
                   /\ ~ENABLED Get(p, w)

\* The sweep has returned and no thread can take a step, with every
\* worker still waiting in q.get().
C15_Witness ==
    /\ main_pc = "done"
    /\ ~ENABLED Next
    /\ \A p \in Pools : Drained(p)
    /\ \A p \in Pools, w \in Workers : wpc[p][w] = "get"

\* C16: pool 2 does not wait for pool 1.  Either pool may drain first, and
\* the sweep waits for the other one: while only one pool has drained the
\* main thread has not passed the joins, and it classifies only when both
\* have drained.
C16_SweepWaitsForBothPools ==
    /\ main_pc \in {"print_results", "done"} => \A p \in Pools : Drained(p)
    /\ (Drained(2) /\ ~Drained(1)) => main_pc = "join1"
    /\ (Drained(1) /\ ~Drained(2)) =>
          main_pc \in {"start2", "fill2", "join1", "join2"}

\* Pool 2 has drained completely while a worker of pool 1 is still in the
\* middle of a probe; the main thread waits in ips_q1.join().
C16_Witness ==
    /\ Drained(2)
    /\ ~Drained(1)
    /\ main_pc = "join1"
    /\ \E w \in Workers : wpc[1][w] = "ping"

\* Workers of pool 2 dequeue and probe while pool 1 still has a queued
\* target and a target in flight.
C16_ConcurrentPools ==
    /\ queue[1] # <<>>
    /\ \E w \in Workers : wpc[1][w] = "ping"
    /\ \E w \in Workers : wpc[2][w] = "ping"

\* Pool 1 has drained while pool 2 has not; the main thread waits in
\* ips_q2.join().
C16_FirstPoolFirst ==
    /\ Drained(1)
    /\ ~Drained(2)
    /\ main_pc = "join2"

\* The targets of a pool that were dequeued and are not yet task_done.
InFlight(p) == unfinished[p] - Len(queue[p])

Holding(p) == { w \in Workers : ip[p][w] # None }

\* C17: probing does not serialize the workers of a pool.  A worker in
\* the middle of a probe can complete it whatever the other workers are
\* doing (it waits for no lock), each in-flight target is held by one
\* worker, and at most num_threads targets per range are in flight.
C17_ProbesNotSerialized ==
    \A p \in Pools :
       /\ InFlight(p) = Cardinality(Holding(p))
       /\ InFlight(p) <= NumThreads
       /\ \A w \in Workers : wpc[p][w] = "ping" => ENABLED Ping(p, w)

\* Two workers of the same pool are in the middle of a probe attempt at
\* the same time.
C17_Witness ==
    \E p \in Pools, w1, w2 \in Workers :
       /\ w1 # w2
       /\ wpc[p][w1] = "ping"
       /\ wpc[p][w2] = "ping"
       /\ InFlight(p) = 2

\* C18: each failure list is append-only and frozen at drain.  Every step
\* leaves a failure list unchanged or appends one target (the one the
\* appending worker holds); once the main thread is past the joins no
\* step changes a list; classification returns the lists unchanged.
C18_AppendOnly ==
    [][ /\ \A p \in Pools :
              \/ faillist'[p] = faillist[p]
              \/ \E w \in Workers :
                    /\ ip[p][w] # None
                    /\ faillist'[p] = Append(faillist[p], ip[p][w])
        /\ main_pc \in {"print_results", "done"} => faillist' = faillist
        /\ result' # result =>
              /\ faillist' = faillist
              /\ result'[1] = faillist[1]
              /\ result'[2] = faillist[2]
      ]_vars

\* The sweep has returned a result whose first failure list was built by
\* more than one append.
C18_Witness ==
    /\ main_pc = "done"
    /\ Len(faillist[1]) >= 2
    /\ faillist[2] = <<>>
    /\ result[1] = faillist[1]

\* C19: onlyA, onlyB and common are duplicate-free and pairwise disjoint
\* and together hold exactly the offsets of the two failure lists; no
\* offset occurs twice in a failure list, in any reachable state.
C19_PartitionOfOffsets ==
    /\ \A p \in Pools : NoDuplicates(Octets(faillist[p]))
    /\ result # None =>
          /\ NoDuplicates(result[3])
          /\ NoDuplicates(result[4])
          /\ NoDuplicates(result[5])
          /\ SeqSet(result[3]) \cap SeqSet(result[4]) = {}
          /\ SeqSet(result[3]) \cap SeqSet(result[5]) = {}
          /\ SeqSet(result[4]) \cap SeqSet(result[5]) = {}
          /\ SeqSet(result[3]) \cup SeqSet(result[4]) \cup SeqSet(result[5])
                = OctetSet(result[1]) \cup OctetSet(result[2])

\* A result with an offset failed only in range A and an offset failed in
\* both ranges.
C19_Witness ==
    /\ result # None
    /\ result[3] # <<>>
    /\ result[5] # <<>>
    /\ result[4] = <<>>


\* The sweep ran to its end under the mock with the side_effect sequence.
FailFirstDone == seam = "failfirst" /\ main_pc = "done"

C14_FirstPoolTakesAll ==
    /\ FailFirstDone
    /\ LastAttempt * Len(result[1]) = FailFirst
    /\ result[2] = <<>>

\* A complete sweep under the side_effect sequence in which range B took
\* all the failing calls and range A recorded no failure.
C14_SecondPoolTakesAll ==
    /\ FailFirstDone
    /\ LastAttempt * Len(result[2]) = FailFirst
    /\ result[1] = <<>>

\* A complete sweep under the side_effect sequence that recorded no
\* failure at all: the failing calls were spread over targets that each
\* answered their third ping.
C14_NoFailureAtAll ==
    /\ FailFirstDone
    /\ result[1] = <<>>
    /\ result[2] = <<>>

\* The targets of pool p that a per-target get_returncode never lets
\* answer: those whose three attempts all return non-zero.
PlanFailed(p) ==
    { t \in Targets(p) :
         \A a \in 1 .. LastAttempt : plan[p][t[1]][a] # 0 }

PlanOctets(p) == { t[1] : t \in PlanFailed(p) }

\* C20: under a per-target get_returncode the result of a complete sweep
\* is a function of the inputs alone (the command line and the outcome
\* function), whatever the interleaving: the failure lists hold exactly
\* the targets that never answer, and onlyA, onlyB and common are the
\* ascending sequences of the corresponding offsets.  Two complete runs
\* on the same inputs therefore agree on all of them.
C20_ResultIndependentOfSchedule ==
    (seam = "fixed" /\ main_pc = "done") =>
       /\ SeqSet(result[1]) = PlanFailed(1)
       /\ SeqSet(result[2]) = PlanFailed(2)
       /\ Len(result[1]) = Cardinality(PlanFailed(1))
       /\ Len(result[2]) = Cardinality(PlanFailed(2))
       /\ result[3] = AscendingSeq(PlanOctets(1) \ PlanOctets(2))
       /\ result[4] = AscendingSeq(PlanOctets(2) \ PlanOctets(1))
       /\ result[5] = AscendingSeq(PlanOctets(1) \cap PlanOctets(2))

\* A complete sweep under a per-target get_returncode whose first failure
\* list was filled against the order of enumeration, with one offset
\* failed in range A only and one failed in both ranges.
C20_Witness ==
    /\ seam = "fixed"
    /\ main_pc = "done"
    /\ Len(result[1]) = 2
    /\ result[1][1][1] > result[1][2][1]
    /\ result[3] # <<>>
    /\ result[5] # <<>>
    /\ Len(result[2]) = 1

====
